---- MODULE Spec2Model ----
(***************************************************************************)
(* scripts/fix-ts.py: the TypeScript error auto-fixer.                     *)
(*                                                                         *)
(* File contents and checker lines are strings, handled character by       *)
(* character; the three regular-expression rules, the diagnostic parser    *)
(* and main()'s run / patch / re-run sequence are translated from the      *)
(* script.                                                                 *)
(***************************************************************************)
EXTENDS Integers, Sequences, FiniteSets, TLC

(***************************************************************************)
(* Strings.                                                                *)
(***************************************************************************)
At(s, i) == SubSeq(s, i, i)

StartsAt(s, i, lit) ==
    /\ i >= 1
    /\ i + Len(lit) - 1 <= Len(s)
    /\ SubSeq(s, i, i + Len(lit) - 1) = lit

\* Python's `needle in s` for a non-empty needle
Contains(s, needle) ==
    \E i \in 1..(Len(s) - Len(needle) + 1) : StartsAt(s, i, needle)

Min(S) == CHOOSE m \in S : \A k \in S : m <= k

\* \s of the re module, on the characters that occur in the contents
IsWs(c) == c \in {" ", "\t", "\n", "\r"}

\* \w of the re module, on ASCII
WordChars ==
    {"a","b","c","d","e","f","g","h","i","j","k","l","m","n","o","p","q","r",
     "s","t","u","v","w","x","y","z","A","B","C","D","E","F","G","H","I","J",
     "K","L","M","N","O","P","Q","R","S","T","U","V","W","X","Y","Z","0","1",
     "2","3","4","5","6","7","8","9","_"}

IsWord(c) == c \in WordChars

IsDigit(c) == c \in {"0","1","2","3","4","5","6","7","8","9"}

IsQuote(c) == c \in {"'", "\""}

\* where a greedy \s* that starts at i stops
SkipWs(s, i) == Min({j \in i..(Len(s) + 1) : j = Len(s) + 1 \/ ~IsWs(At(s, j))})

\* where a greedy \w* that starts at i stops
SkipWord(s, i) == Min({j \in i..(Len(s) + 1) : j = Len(s) + 1 \/ ~IsWord(At(s, j))})

\* where a greedy \d* that starts at i stops
SkipDigits(s, i) == Min({j \in i..(Len(s) + 1) : j = Len(s) + 1 \/ ~IsDigit(At(s, j))})

\* str.strip()
strip(s) ==
    LET keep == {j \in 1..Len(s) : ~IsWs(At(s, j))}
    IN  IF keep = {} THEN ""
        ELSE SubSeq(s, Min(keep), CHOOSE m \in keep : \A k \in keep : k <= m)

\* str.replace(old, new): every non-overlapping occurrence, leftmost first; an
\* empty `old` occurs before every character and at the end
RECURSIVE replace_from(_, _, _, _)
replace_from(s, old, new, from) ==
    LET hits == {i \in from..(Len(s) - Len(old) + 1) : StartsAt(s, i, old)}
    IN  IF hits = {} THEN SubSeq(s, from, Len(s))
        ELSE LET i == Min(hits)
             IN  SubSeq(s, from, i - 1) \o new \o replace_from(s, old, new, i + Len(old))

RECURSIVE replace_empty(_, _, _)
replace_empty(s, new, from) ==
    IF from > Len(s) THEN new
    ELSE new \o At(s, from) \o replace_empty(s, new, from + 1)

replace(s, old, new) ==
    IF old = "" THEN replace_empty(s, new, 1) ELSE replace_from(s, old, new, 1)

NoMatch == [ok |-> FALSE]

(***************************************************************************)
(* fix_supabase_never_types: pattern1 and add_type_assertion.              *)
(***************************************************************************)
\* the tail of pattern1 from position p:
\*   \s*\}\s*=\s*await\s+supabase\s*\.from\(['"](\w+)['"]\)\s*\.select\(
pattern1_tail(s, p) ==
    LET c1 == SkipWs(s, p)
        c2 == SkipWs(s, c1 + 1)
        c3 == SkipWs(s, c2 + 1)
        c4 == SkipWs(s, c3 + 5)
        c5 == SkipWs(s, c4 + 8)
        c6 == c5 + 6
        c7 == SkipWord(s, c6 + 1)
        c8 == SkipWs(s, c7 + 2)
    IN  IF /\ StartsAt(s, c1, "}")
           /\ StartsAt(s, c2, "=")
           /\ StartsAt(s, c3, "await")
           /\ c4 > c3 + 5
           /\ StartsAt(s, c4, "supabase")
           /\ StartsAt(s, c5, ".from(")
           /\ c6 <= Len(s) /\ IsQuote(At(s, c6))
           /\ c7 > c6 + 1
           /\ c7 <= Len(s) /\ IsQuote(At(s, c7))
           /\ StartsAt(s, c7 + 1, ")")
           /\ StartsAt(s, c8, ".select(")
        THEN [ok |-> TRUE, end |-> c8 + 8, table |-> SubSeq(s, c6 + 1, c7 - 1)]
        ELSE NoMatch

\* pattern1 tried at position i:
\*   const\s+\{\s*data:\s*(\w+)(?:,\s*error:\s*(\w+))?  and then the tail.
\* The optional group is tried first; when the tail fails after it, the
\* match is tried again without the group. error_var = "" is Python's None.
pattern1(s, i) ==
    LET a2 == SkipWs(s, i + 5)
        a3 == SkipWs(s, a2 + 1)
        a4 == SkipWs(s, a3 + 5)
        a5 == SkipWord(s, a4)
        b1 == SkipWs(s, a5 + 1)
        b2 == SkipWs(s, b1 + 6)
        b3 == SkipWord(s, b2)
        group == /\ StartsAt(s, a5, ",")
                 /\ StartsAt(s, b1, "error:")
                 /\ b3 > b2
        Groups(data_var, error_var, with, without) ==
            IF with.ok
            THEN [ok |-> TRUE, start |-> i, end |-> with.end, data_var |-> data_var,
                  error_var |-> error_var, table |-> with.table]
            ELSE IF without.ok
            THEN [ok |-> TRUE, start |-> i, end |-> without.end, data_var |-> data_var,
                  error_var |-> "", table |-> without.table]
            ELSE NoMatch
    IN  IF /\ StartsAt(s, i, "const")
           /\ a2 > i + 5
           /\ StartsAt(s, a2, "{")
           /\ StartsAt(s, a3, "data:")
           /\ a5 > a4
        THEN Groups(SubSeq(s, a4, a5 - 1),
                    IF group THEN SubSeq(s, b2, b3 - 1) ELSE "",
                    IF group THEN pattern1_tail(s, b3) ELSE NoMatch,
                    pattern1_tail(s, a5))
        ELSE NoMatch

\* the callback of pattern1: [text: the replacement, fixes: what it adds to
\* the enclosing function's counter]. The text it returns is the statement
\* respaced and requoted; no `as` is put into it.
add_type_assertion(s, m) ==
    LET group0 == SubSeq(s, m.start, m.end - 1)
    IN  IF Contains(group0, " as ")
        THEN [text |-> group0, fixes |-> 0]
        ELSE IF m.error_var # ""
        THEN [text |-> "const { data: " \o m.data_var \o ", error: " \o m.error_var
                       \o " } = await supabase.from('" \o m.table \o "').select(",
              fixes |-> 1]
        ELSE [text |-> "const { data: " \o m.data_var
                       \o " } = await supabase.from('" \o m.table \o "').select(",
              fixes |-> 1]

(***************************************************************************)
(* fix_supabase_never_types: the insert/update pattern, fix_insert_update. *)
(***************************************************************************)
\* \.(insert|update)\(([^)]+)\) tried at position i: the argument runs to
\* the first ")" after the "(" and is not empty
pattern2(s, i) ==
    LET a == i + 8
        closes == {j \in a..Len(s) : At(s, j) = ")"}
        e == Min(closes)
    IN  IF /\ (StartsAt(s, i, ".insert(") \/ StartsAt(s, i, ".update("))
           /\ closes # {}
           /\ e > a
        THEN [ok |-> TRUE, start |-> i, end |-> e + 1,
              method |-> SubSeq(s, i + 1, i + 6), arg |-> SubSeq(s, a, e - 1)]
        ELSE NoMatch

\* re.match(r'^\w+$', t) for a stripped t
IsIdentifier(t) == t # "" /\ \A j \in 1..Len(t) : IsWord(At(t, j))

fix_insert_update(s, m) ==
    LET group0 == SubSeq(s, m.start, m.end - 1)
    IN  IF Contains(m.arg, " as ")
        THEN [text |-> group0, fixes |-> 0]
        ELSE IF StartsAt(strip(m.arg), 1, "{") \/ IsIdentifier(strip(m.arg))
        THEN [text |-> "." \o m.method \o "(" \o m.arg \o " as any)", fixes |-> 1]
        ELSE [text |-> group0, fixes |-> 0]

(***************************************************************************)
(* fix_any_to_never_errors: the two (pattern, replacement) pairs.          *)
(***************************************************************************)
\* \.eq\(['"](\w+)['"]\s*,\s*(\w+)\)  and the same with "in" for "eq",
\* tried at position i; name is "eq" or "in"
eq_in_pattern(name, s, i) ==
    LET a == i + 4
        a1 == SkipWord(s, a + 1)
        a2 == SkipWs(s, a1 + 1)
        a3 == SkipWs(s, a2 + 1)
        a4 == SkipWord(s, a3)
    IN  IF /\ StartsAt(s, i, "." \o name \o "(")
           /\ a <= Len(s) /\ IsQuote(At(s, a))
           /\ a1 > a + 1
           /\ a1 <= Len(s) /\ IsQuote(At(s, a1))
           /\ StartsAt(s, a2, ",")
           /\ a4 > a3
           /\ StartsAt(s, a4, ")")
        THEN [ok |-> TRUE, start |-> i, end |-> a4 + 1,
              column |-> SubSeq(s, a + 1, a1 - 1), value |-> SubSeq(s, a3, a4 - 1)]
        ELSE NoMatch

\* the replacement templates r'.eq(\'\1\', \2 as any)' and
\* r'.in(\'\1\', \2 as any)': in a raw string \' is a backslash and a quote,
\* and re.sub copies both into the output
eq_in_replacement(name, m) ==
    "." \o name \o "(\\'" \o m.column \o "\\', " \o m.value \o " as any)"

(***************************************************************************)
(* fix_error_handling: pattern and fix_catch.                              *)
(***************************************************************************)
\* the call part of the pattern, tried with the block ending before j:
\*   (?:logger\.error|console\.error)\s*\([^\)]*?,\s*\1\s*\)
\* [^\)]*? is lazy: the first "," (with no ")" before it) that is followed
\* by the caught name and ")" ends it. Gives the end of the match, or 0.
catch_call(s, j, error_var) ==
    LET q == IF StartsAt(s, j, "logger.error") THEN j + 12 ELSE j + 13
        q1 == SkipWs(s, q)
        closes == {k \in (q1 + 1)..Len(s) : At(s, k) = ")"}
        limit == IF closes = {} THEN Len(s) ELSE Min(closes) - 1
        EndAt(k) == SkipWs(s, SkipWs(s, k + 1) + Len(error_var))
        commas == {k \in (q1 + 1)..limit :
                      /\ At(s, k) = ","
                      /\ StartsAt(s, SkipWs(s, k + 1), error_var)
                      /\ StartsAt(s, EndAt(k), ")")}
    IN  IF /\ (StartsAt(s, j, "logger.error") \/ StartsAt(s, j, "console.error"))
           /\ StartsAt(s, q1, "(")
           /\ commas # {}
        THEN EndAt(Min(commas)) + 1
        ELSE 0

\* catch\s*\((\w+)\)\s*\{([^}]*?) and then the call, tried at position i;
\* [^}]*? is lazy: the block ends before the first logging call that matches
catch_pattern(s, i) ==
    LET p1 == SkipWs(s, i + 5)
        p3 == SkipWord(s, p1 + 1)
        p4 == SkipWs(s, p3 + 1)
        bs == p4 + 1
        error_var == SubSeq(s, p1 + 1, p3 - 1)
        braces == {k \in bs..Len(s) : At(s, k) = "}"}
        limit == IF braces = {} THEN Len(s) ELSE Min(braces)
        \* calls: where a logging call matches -> where that match ends
        Shortest(calls) ==
            IF DOMAIN calls = {} THEN NoMatch
            ELSE [ok |-> TRUE, start |-> i,
                  end |-> calls[Min(DOMAIN calls)],
                  error_var |-> error_var,
                  block_content |-> SubSeq(s, bs, Min(DOMAIN calls) - 1)]
    IN  IF /\ StartsAt(s, i, "catch")
           /\ StartsAt(s, p1, "(")
           /\ p3 > p1 + 1
           /\ StartsAt(s, p3, ")")
           /\ StartsAt(s, p4, "{")
        THEN Shortest([j \in {k \in bs..limit : catch_call(s, k, error_var) # 0} |->
                          catch_call(s, j, error_var)])
        ELSE NoMatch

\* re.search(r'\n(\s+)', block_content): the whitespace after the first
\* newline that has whitespace after it, else four spaces
indent_of(block_content) ==
    LET nls == {k \in 1..(Len(block_content) - 1) :
                   At(block_content, k) = "\n" /\ IsWs(At(block_content, k + 1))}
    IN  IF nls = {} THEN "    "
        ELSE SubSeq(block_content, Min(nls) + 1, SkipWs(block_content, Min(nls) + 1) - 1)

fix_catch(s, m) ==
    LET group0 == SubSeq(s, m.start, m.end - 1)
        error_handler == "\n" \o indent_of(m.block_content) \o "const err = " \o m.error_var
                         \o " instanceof Error ? " \o m.error_var
                         \o " : new Error(String(" \o m.error_var \o "));"
        new_block == error_handler \o m.block_content
    IN  IF Contains(m.block_content, "const err = " \o m.error_var \o " instanceof Error")
        THEN [text |-> group0, fixes |-> 0]
        ELSE [text |-> replace(replace(group0, m.block_content, new_block),
                               ", " \o m.error_var \o ")", ", err)"),
              fixes |-> 1]

(***************************************************************************)
(* re.sub: the pattern is tried at every position from the left; a match   *)
(* is replaced and the scan goes on after it.                              *)
(***************************************************************************)
MatchAt(pat, s, i) ==
    CASE pat = "pattern1" -> pattern1(s, i)
      [] pat = "insert_update" -> pattern2(s, i)
      [] pat = "eq" -> eq_in_pattern("eq", s, i)
      [] pat = "in" -> eq_in_pattern("in", s, i)
      [] pat = "catch" -> catch_pattern(s, i)

Replacement(pat, s, m) ==
    CASE pat = "pattern1" -> add_type_assertion(s, m)
      [] pat = "insert_update" -> fix_insert_update(s, m)
      [] pat = "eq" -> [text |-> eq_in_replacement("eq", m), fixes |-> 0]
      [] pat = "in" -> [text |-> eq_in_replacement("in", m), fixes |-> 0]
      [] pat = "catch" -> fix_catch(s, m)

\* [content: the new text from position `from` on, fixes: the callbacks'
\* increments, sites: the matches whose text changed]
RECURSIVE re_sub_from(_, _, _)
re_sub_from(pat, s, from) ==
    LET Put(m, r, rest) ==
            [content |-> SubSeq(s, from, m.start - 1) \o r.text \o rest.content,
             fixes |-> r.fixes + rest.fixes,
             sites |-> rest.sites
                       + (IF r.text # SubSeq(s, m.start, m.end - 1) THEN 1 ELSE 0)]
        Sub(m) == Put(m, Replacement(pat, s, m), re_sub_from(pat, s, m.end))
        \* matches: the matches of the pattern at the positions from `from` on
        Leftmost(matches) ==
            IF matches = {} THEN [content |-> SubSeq(s, from, Len(s)), fixes |-> 0, sites |-> 0]
            ELSE Sub(CHOOSE m \in matches : \A k \in matches : m.start <= k.start)
    IN  Leftmost({m \in {MatchAt(pat, s, i) : i \in from..Len(s)} : m.ok})

re_sub(pat, s) == re_sub_from(pat, s, 1)

(***************************************************************************)
(* The three rule functions, on the text read from the file. Each gives    *)
(* [content: the text it ends with, write: whether it calls write_text,    *)
(* returns: its return value, sites: the matches whose text it changed].   *)
(***************************************************************************)
fix_supabase_never_types(original) ==
    LET Result(r1, r2) ==
            [content |-> r2.content,
             write |-> r2.content # original,
             returns |-> IF r2.content # original THEN r1.fixes + r2.fixes ELSE 0,
             sites |-> r1.sites + r2.sites]
        Second(r1) == Result(r1, re_sub("insert_update", r1.content))
    IN  Second(re_sub("pattern1", original))

fix_any_to_never_errors(original) ==
    LET Result(r1, r2) ==
            [content |-> r2.content,
             write |-> r2.content # original,
             returns |-> IF r2.content # original
                         THEN (IF r1.content # original THEN 1 ELSE 0)
                              + (IF r2.content # r1.content THEN 1 ELSE 0)
                         ELSE 0,
             sites |-> r1.sites + r2.sites]
        Second(r1) == Result(r1, re_sub("in", r1.content))
    IN  Second(re_sub("eq", original))

fix_error_handling(original) ==
    LET Result(r) ==
            [content |-> r.content,
             write |-> r.content # original,
             returns |-> IF r.content # original THEN r.fixes ELSE 0,
             sites |-> r.sites]
    IN  Result(re_sub("catch", original))

Rules == {"fix_supabase_never_types", "fix_any_to_never_errors", "fix_error_handling"}

ApplyRule(rule, text) ==
    CASE rule = "fix_supabase_never_types" -> fix_supabase_never_types(text)
      [] rule = "fix_any_to_never_errors" -> fix_any_to_never_errors(text)
      [] rule = "fix_error_handling" -> fix_error_handling(text)

(***************************************************************************)
(* run_tsc and parse_errors.                                               *)
(***************************************************************************)
\* What one call of the checker does: subprocess.run raises (npx cannot be
\* started), or it gives the lines of its two streams. A stream is the
\* sequence of the lines between its "\n"; << >> is the empty stream.
split_lines(stream) == IF stream = << >> THEN << "" >> ELSE stream

\* run_tsc's return value: [] when subprocess.run raised (the exception is
\* printed and swallowed), else stderr's lines if stderr is not empty, else
\* stdout's lines
run_tsc(outcome) ==
    IF outcome.raised THEN << >>
    ELSE IF outcome.stderr # << >> THEN split_lines(outcome.stderr)
    ELSE split_lines(outcome.stdout)

\* the part of the diagnostic pattern after the path, tried at position p:
\*   \((\d+),(\d+)\): error (TS\d+): (.+)$
diagnostic_tail(line, p) ==
    LET d1 == SkipDigits(line, p + 1)
        d2 == SkipDigits(line, d1 + 1)
        d3 == SkipDigits(line, d2 + 11)
    IN  /\ StartsAt(line, p, "(")
        /\ d1 > p + 1
        /\ StartsAt(line, d1, ",")
        /\ d2 > d1 + 1
        /\ StartsAt(line, d2, "): error TS")
        /\ d3 > d2 + 11
        /\ StartsAt(line, d3, ": ")
        /\ d3 + 2 <= Len(line)

\* re.match(r'^(.+?\.tsx?)\((\d+),(\d+)\): error (TS\d+): (.+)$', line), for
\* a line of run_tsc (split at every "\n", it holds none):
\* .+? is lazy, so the path ends at the first ".ts" or ".tsx" (with at least
\* one character before it) after which the rest matches; x? takes the "x"
\* first and gives it back when the rest fails
diagnostic_match(line) ==
    LET ends == {p \in 2..(Len(line) - 2) :
                    /\ StartsAt(line, p, ".ts")
                    /\ \/ StartsAt(line, p + 3, "x") /\ diagnostic_tail(line, p + 4)
                       \/ diagnostic_tail(line, p + 3)}
        p == Min(ends)
    IN  IF ends = {} THEN NoMatch
        ELSE [ok |-> TRUE,
              file_path |-> IF StartsAt(line, p + 3, "x") /\ diagnostic_tail(line, p + 4)
                            THEN SubSeq(line, 1, p + 3)
                            ELSE SubSeq(line, 1, p + 2)]

\* errors_by_file: the dict as the sequence of its items in insertion order,
\* each [file_path, errors: the length of the file's list]
RECURSIVE parse_errors(_)
parse_errors(lines) ==
    IF lines = << >> THEN << >>
    ELSE LET before == parse_errors(SubSeq(lines, 1, Len(lines) - 1))
             m == diagnostic_match(lines[Len(lines)])
             at == {k \in 1..Len(before) : before[k].file_path = m.file_path}
         IN  IF ~m.ok THEN before
             ELSE IF at = {} THEN Append(before, [file_path |-> m.file_path, errors |-> 1])
             ELSE [before EXCEPT ![Min(at)].errors = @ + 1]

\* sum(len(errors) for errors in errors_by_file.values())
RECURSIVE sum_errors(_)
sum_errors(items) ==
    IF items = << >> THEN 0 ELSE items[1].errors + sum_errors(Tail(items))

\* A wrong variant of sorted_reverse: sorted(items, key=...)[::-1], an ascending
\* stable sort turned round, which turns round the items of equal key too
RECURSIVE sorted_then_reversed(_)
sorted_then_reversed(items) ==
    IF items = << >> THEN << >>
    ELSE LET done == sorted_then_reversed(SubSeq(items, 1, Len(items) - 1))
             x == items[Len(items)]
             k == Cardinality({j \in 1..Len(done) : done[j].errors > x.errors})
         IN  SubSeq(done, 1, k) \o << x >> \o SubSeq(done, k + 1, Len(done))

\* sorted(items, key=lambda x: len(x[1]), reverse=True): a stable sort; with
\* reverse=True items of equal key keep their order
RECURSIVE sorted_reverse(_)
sorted_reverse(items) ==
    IF items = << >> THEN << >>
    ELSE LET done == sorted_reverse(SubSeq(items, 1, Len(items) - 1))
             x == items[Len(items)]
             k == Cardinality({j \in 1..Len(done) : done[j].errors >= x.errors})
         IN  SubSeq(done, 1, k) \o << x >> \o SubSeq(done, k + 1, Len(done))

(***************************************************************************)
(* State.                                                                  *)
(***************************************************************************)
VARIABLES
    \* main(): the environment it runs in
    tsc_before,      \* what the checker does when first called
    files,           \* path -> the text of the file ("" when there is none)
    mode,            \* path -> "missing" | "rw" | "ro" (write_text raises)
                     \*         | "noread" (read_text raises)
    \* main(): its position and its local variables
    pc,              \* "start" | "patch" | "done" | "crashed"
    error_lines, errors_by_file, total_errors, sorted_files,
    idx,             \* the item of sorted_files the for loop is at
    step,            \* the rule function called next for that item: 1, 2, 3
    fixes, total_fixes, files_modified, remaining_errors,
    \* main(): what can be seen from outside
    tsc_calls,       \* subprocess.run calls so far
    tsc_raised,      \* the calls, by number, in which subprocess.run raised
    reads, writes,   \* path -> read_text / write_text calls that returned
    visited,         \* the paths the for loop has taken, in order
    failed,          \* the path whose read_text or write_text raised, or ""
    report,          \* "none" | "no_errors" | "results"
    exit_status,     \* -1 while running; 0: main returned 0; 1: traceback
    \* one rule function called again and again on one text
    input,           \* the text of the file before the first call
    rule, prev_rule, \* the function called last, and the one before it
    before, text,    \* the text of the file before the last call, and now
    returns,         \* what the last call returned
    wrote,           \* whether the last call called write_text
    sites,           \* the matches whose text the last call changed
    applied          \* the calls so far

env_vars == <<tsc_before, files, mode>>
main_vars == <<pc, error_lines, errors_by_file, total_errors, sorted_files, idx, step,
               fixes, total_fixes, files_modified, remaining_errors, tsc_calls,
               tsc_raised, reads, writes, visited, failed, report, exit_status>>
rule_vars == <<input, rule, prev_rule, before, text, returns, wrote, sites, applied>>
vars == <<env_vars, main_vars, rule_vars>>

(***************************************************************************)
(* Bounds and inputs.                                                      *)
(***************************************************************************)
MaxLines == 5          \* lines of a checker output, in SpecRank
MaxFragments == 2      \* fragments of a text, in SpecRules
MaxApplications == 2   \* calls of rule functions on a text, in SpecRules

Paths == {"a.ts", "b.ts", "c.tsx"}

DiagnosticLine(path) == path \o "(3,7): error TS2345: not assignable"

NoiseLine == "Found 3 errors in 2 files."

Lines == {DiagnosticLine(f) : f \in Paths} \cup {NoiseLine}

SeqsUpTo(S, n) == UNION {[1..k -> S] : k \in 0..n}

Stdout(lines) == [raised |-> FALSE, stderr |-> << >>, stdout |-> lines]

\* a.ts: 3, b.ts: 1, c.tsx: 3, in that order of discovery
ExampleOutcome ==
    Stdout(<<DiagnosticLine("a.ts"), DiagnosticLine("b.ts"), DiagnosticLine("c.tsx"),
             DiagnosticLine("a.ts"), DiagnosticLine("c.tsx"), NoiseLine,
             DiagnosticLine("c.tsx"), DiagnosticLine("a.ts")>>)

RankOutcomes == {Stdout(l) : l \in SeqsUpTo(Lines, MaxLines)} \cup {ExampleOutcome}

Raised == [raised |-> TRUE, stderr |-> << >>, stdout |-> << >>]

MainOutcomes ==
    {Raised,
     Stdout(<< >>),
     Stdout(<<NoiseLine>>),
     Stdout(<<DiagnosticLine("a.ts")>>),
     Stdout(<<DiagnosticLine("b.ts"), DiagnosticLine("a.ts"), DiagnosticLine("a.ts"),
              NoiseLine>>),
     Stdout(<<DiagnosticLine("a.ts"), DiagnosticLine("b.ts"), DiagnosticLine("c.tsx"),
              DiagnosticLine("c.tsx")>>),
     [raised |-> FALSE, stderr |-> <<DiagnosticLine("c.tsx"), DiagnosticLine("b.ts")>>,
      stdout |-> <<DiagnosticLine("a.ts")>>]}

AfterOutcomes ==
    {Raised, Stdout(<<NoiseLine>>), Stdout(<<DiagnosticLine("a.ts")>>)}

\* a file every rule function changes, and one none of them changes
Fixable ==
    "const {data:v}=await supabase.from(\"t\").select('id')\n"
    \o "await supabase.from('t').insert(row)\n"
    \o "q.eq('c', v).eq('d', w)\n"
    \o "try { f() } catch (e) {\n  logger.error('x', e)\n}\n"

Plain == "export const x = 1;\n"

Contents == {Fixable, Plain}

Modes == {"missing", "rw", "ro", "noread"}

\* the pieces the texts of SpecRules are made of
Fragments ==
    {"f();\n",
     \* result bindings: already spaced as the rule spaces them, compact with
     \* an error binding and double quotes, spread over lines
     "const { data: v } = await supabase.from('t').select('id')\n",
     "const {data:v,error:w}=await supabase.from(\"t\").select('id')\n",
     "const { data: v, error: w } = await supabase\n  .from('t')\n  .select('id')\n",
     \* insert / update calls
     "q.insert(row)\n",
     "q.update({ id: x })\n",
     "q.insert(f(x))\n",
     "q.update(a.b)\n",
     "q.insert({ id: f(x) })\n",
     "q.insert(row as Row)\n",
     \* eq / in calls
     "q.eq('c', v)\n",
     "q.eq(\"c\",v)\n",
     "q.in('c', ids)\n",
     "q.eq('c', f(v))\n",
     \* catch blocks: a statement before the logging call, an empty body, a
     \* body of one space, no space after the comma, a call over several
     \* lines, a catch named in a comment of another catch block
     "catch (e) {\n  f();\n  logger.error('x', e)\n}\n",
     "catch (e) {logger.error('x', e)}\n",
     "catch (e) { console.error('x', e) }\n",
     "catch (e) {\n  logger.error('x',e)\n}\n",
     "catch (e) {\n  logger.error(\n    'x',\n    e\n  )\n}\n",
     "catch (err) {\n  // as in: catch (e) {\n  logger.error('x', e)\n}\n"}

RECURSIVE Concat(_)
Concat(seq) == IF seq = << >> THEN "" ELSE Head(seq) \o Concat(Tail(seq))

Texts == {Concat(fs) : fs \in SeqsUpTo(Fragments, MaxFragments)}

(***************************************************************************)
(* main().                                                                 *)
(***************************************************************************)
MainStart ==
    /\ pc = "start"
    /\ error_lines = << >> /\ errors_by_file = << >> /\ total_errors = 0
    /\ sorted_files = << >> /\ idx = 1 /\ step = 1
    /\ fixes = 0 /\ total_fixes = 0 /\ files_modified = 0 /\ remaining_errors = 0
    /\ tsc_calls = 0 /\ tsc_raised = {}
    /\ reads = [f \in Paths |-> 0] /\ writes = [f \in Paths |-> 0]
    /\ visited = << >> /\ failed = "" /\ report = "none" /\ exit_status = -1

RuleIdle ==
    /\ input = text
    /\ rule = "" /\ prev_rule = "" /\ before = ""
    /\ returns = 0 /\ wrote = FALSE /\ sites = 0 /\ applied = 0

\* lines 166-179: the first run of the checker, the grouping, the early
\* return when nothing was parsed, the ranking
Run ==
    /\ pc = "start"
    /\ LET lines == run_tsc(tsc_before)
           grouped == parse_errors(lines)
       IN  /\ error_lines' = lines
           /\ errors_by_file' = grouped
           /\ total_errors' = sum_errors(grouped)
           /\ tsc_calls' = tsc_calls + 1
           /\ tsc_raised' = IF tsc_before.raised THEN tsc_raised \cup {tsc_calls + 1}
                            ELSE tsc_raised
           /\ IF grouped = << >>
              THEN /\ pc' = "done"
                   /\ report' = "no_errors"
                   /\ exit_status' = 0
                   /\ UNCHANGED sorted_files
              ELSE /\ pc' = "patch"
                   /\ sorted_files' = sorted_reverse(grouped)
                   /\ UNCHANGED <<report, exit_status>>
    /\ UNCHANGED <<idx, step, fixes, total_fixes, files_modified, remaining_errors,
                   reads, writes, visited, failed>>
    /\ UNCHANGED <<env_vars, rule_vars>>

InLoop == pc = "patch" /\ idx <= Len(sorted_files)

Current == sorted_files[idx].file_path

\* lines 194-195: the file of the item does not exist
SkipMissing ==
    /\ InLoop /\ step = 1
    /\ mode[Current] = "missing"
    /\ visited' = Append(visited, Current)
    /\ idx' = idx + 1
    /\ UNCHANGED <<pc, error_lines, errors_by_file, total_errors, sorted_files, step,
                   fixes, total_fixes, files_modified, remaining_errors, tsc_calls,
                   tsc_raised, reads, writes, failed, report, exit_status>>
    /\ UNCHANGED <<env_vars, rule_vars>>

\* One call `fixes += fix_...(file_path)` of lines 198-200: read_text, the
\* rule, write_text when the text changed. An exception of read_text or
\* write_text is caught nowhere: it ends main() with a traceback. After the
\* third call, lines 202-205 and the next item.
Call(n, name) ==
    /\ mode[Current] # "missing"
    /\ visited' = IF n = 1 THEN Append(visited, Current) ELSE visited
    /\ \E f \in {Current} : \E r \in {ApplyRule(name, files[f])} :
       \E sum \in {(IF n = 1 THEN 0 ELSE fixes) + r.returns} :
           IF mode[f] = "noread" \/ (r.write /\ mode[f] = "ro")
           THEN /\ pc' = "crashed"
                /\ failed' = f
                /\ exit_status' = 1
                /\ reads' = IF mode[f] = "noread" THEN reads
                            ELSE [reads EXCEPT ![f] = @ + 1]
                /\ UNCHANGED <<files, writes, fixes, step, idx, total_fixes,
                               files_modified>>
           ELSE /\ reads' = [reads EXCEPT ![f] = @ + 1]
                /\ files' = IF r.write THEN [files EXCEPT ![f] = r.content] ELSE files
                /\ writes' = IF r.write THEN [writes EXCEPT ![f] = @ + 1] ELSE writes
                /\ fixes' = sum
                /\ step' = IF n = 3 THEN 1 ELSE n + 1
                /\ idx' = IF n = 3 THEN idx + 1 ELSE idx
                /\ total_fixes' = IF n = 3 /\ sum > 0 THEN total_fixes + sum
                                  ELSE total_fixes
                /\ files_modified' = IF n = 3 /\ sum > 0 THEN files_modified + 1
                                     ELSE files_modified
                /\ UNCHANGED <<pc, failed, exit_status>>
    /\ UNCHANGED <<error_lines, errors_by_file, total_errors, sorted_files,
                   remaining_errors, tsc_calls, tsc_raised, report>>
    /\ UNCHANGED <<tsc_before, mode, rule_vars>>

CallSupabase ==
    /\ InLoop /\ step = 1
    /\ Call(1, "fix_supabase_never_types")

CallAnyToNever ==
    /\ InLoop /\ step = 2
    /\ Call(2, "fix_any_to_never_errors")

CallErrorHandling ==
    /\ InLoop /\ step = 3
    /\ Call(3, "fix_error_handling")

\* lines 207-220: after the loop, the second run of the checker and the report
Rerun ==
    /\ pc = "patch" /\ idx > Len(sorted_files)
    /\ \E outcome \in AfterOutcomes :
          /\ remaining_errors' = sum_errors(parse_errors(run_tsc(outcome)))
          /\ error_lines' = run_tsc(outcome)
          /\ errors_by_file' = parse_errors(run_tsc(outcome))
          /\ tsc_raised' = IF outcome.raised THEN tsc_raised \cup {tsc_calls + 1}
                           ELSE tsc_raised
    /\ tsc_calls' = tsc_calls + 1
    /\ pc' = "done"
    /\ report' = "results"
    /\ exit_status' = 0
    /\ UNCHANGED <<total_errors, sorted_files, idx, step, fixes, total_fixes,
                   files_modified, reads, writes, visited, failed>>
    /\ UNCHANGED <<env_vars, rule_vars>>

Next == Run \/ SkipMissing \/ CallSupabase \/ CallAnyToNever \/ CallErrorHandling \/ Rerun

FileSystems ==
    {fs \in [Paths -> [mode : Modes, text : Contents \cup {""}]] :
        \A f \in Paths : fs[f].text = "" <=> fs[f].mode = "missing"}

\* main() with the files and their permissions varied
Init ==
    /\ tsc_before \in MainOutcomes
    /\ \E fs \in FileSystems :
          /\ files = [f \in Paths |-> fs[f].text]
          /\ mode = [f \in Paths |-> fs[f].mode]
    /\ MainStart
    /\ text = "" /\ RuleIdle

Spec == Init /\ [][Next]_vars

\* main() with the output of the first checker run varied
InitRank ==
    /\ tsc_before \in RankOutcomes
    /\ files = [f \in Paths |-> IF f = "a.ts" THEN "q.insert(row)\n"
                                 ELSE IF f = "c.tsx" THEN Plain ELSE ""]
    /\ mode = [f \in Paths |-> IF f = "b.ts" THEN "missing" ELSE "rw"]
    /\ MainStart
    /\ text = "" /\ RuleIdle

SpecRank == InitRank /\ [][Next]_vars

(***************************************************************************)
(* One file and the rule functions called on it, in any order.             *)
(***************************************************************************)
Apply(name) ==
    /\ applied < MaxApplications
    /\ \E r \in {ApplyRule(name, text)} :
          /\ text' = r.content
          /\ returns' = r.returns
          /\ wrote' = r.write
          /\ sites' = r.sites
    /\ before' = text
    /\ prev_rule' = rule
    /\ rule' = name
    /\ applied' = applied + 1
    /\ UNCHANGED <<input, env_vars, main_vars>>

NextRules == \E name \in Rules : Apply(name)

InitRules ==
    /\ text \in Texts
    /\ RuleIdle
    /\ tsc_before = Raised
    /\ files = [f \in Paths |-> ""]
    /\ mode = [f \in Paths |-> "missing"]
    /\ MainStart

SpecRules == InitRules /\ [][NextRules]_vars

(***************************************************************************)
(* Properties of the rule functions (SpecRules).                           *)
(***************************************************************************)
Supabase == "fix_supabase_never_types"

MatchesOf(pat, s) == {i \in 1..Len(s) : MatchAt(pat, s, i).ok}

\* C1: idempotence of every rule function: a call of the function that was
\* called last returns 0, writes nothing and leaves the text as it is.
C1_Idempotent ==
    (applied >= 2 /\ rule = prev_rule) => (returns = 0 /\ ~wrote /\ text = before)

\* a text with one result binding and nothing else the function looks for
OneBinding(s) ==
    /\ Cardinality(MatchesOf("pattern1", s)) = 1
    /\ MatchesOf("insert_update", s) = {}
    /\ ~Contains(s, " as ")

\* C2: on a text holding one unasserted result binding, the first call of
\* fix_supabase_never_types returns 1 and leaves an `as` assertion in the
\* text, and a second call returns 0.
C2_BindingAsserted ==
    (rule = Supabase /\ OneBinding(input)) =>
        /\ applied = 1 => (returns = 1 /\ Contains(text, " as "))
        /\ (applied = 2 /\ prev_rule = Supabase) => returns = 0

\* the argument is a member-access chain, or holds a parenthesis (a call)
OtherExpression(arg) ==
    \/ Contains(arg, "(")
    \/ ~StartsAt(strip(arg), 1, "{") /\ Contains(arg, ".")

\* a text whose insert / update calls all have such an argument, and that
\* holds no result binding
OnlyOtherExpressions(s) ==
    /\ MatchesOf("pattern1", s) = {}
    /\ MatchesOf("insert_update", s) # {}
    /\ \A i \in MatchesOf("insert_update", s) : OtherExpression(MatchAt("insert_update", s, i).arg)

\* C3: an insert / update call whose argument is not a bare identifier or an
\* object literal without parentheses is left as it is and counts no fix.
C3_OtherArgumentsUntouched ==
    (applied = 1 /\ rule = Supabase /\ OnlyOtherExpressions(before)) =>
        (text = before /\ returns = 0)

\* a text with one catch block the pattern accepts, not narrowed before
OneCatch(s) ==
    /\ Cardinality(MatchesOf("catch", s)) = 1
    /\ \A i \in MatchesOf("catch", s) :
          LET m == MatchAt("catch", s, i)
          IN  ~Contains(m.block_content, "const err = " \o m.error_var \o " instanceof Error")

\* what the claim says fix_catch makes of the match m of s: the declaration
\* at the start of the block, `err` for the caught name in the logging call
\* (the name is the last thing before the closing parenthesis and the
\* whitespace in front of it), every other character as it was
Narrowed(s, m) ==
    LET bs == Min({k \in m.start..m.end : At(s, k) = "{"}) + 1
        name_end == CHOOSE k \in m.start..(m.end - 2) :
                        /\ ~IsWs(At(s, k))
                        /\ \A j \in (k + 1)..(m.end - 2) : IsWs(At(s, j))
        name_start == name_end - Len(m.error_var) + 1
    IN  SubSeq(s, 1, bs - 1)
        \o "\n" \o indent_of(m.block_content) \o "const err = " \o m.error_var
        \o " instanceof Error ? " \o m.error_var \o " : new Error(String("
        \o m.error_var \o "));"
        \o SubSeq(s, bs, name_start - 1) \o "err" \o SubSeq(s, name_end + 1, Len(s))

\* C8: on a text with one accepted, not yet narrowed catch block,
\* fix_error_handling puts exactly the declaration at the start of the block
\* and `err` into the logging call, changes nothing else, and returns 1.
C8_CatchNarrowed ==
    (applied = 1 /\ rule = "fix_error_handling" /\ OneCatch(before)) =>
        /\ returns = 1
        /\ \A i \in MatchesOf("catch", before) :
              text = Narrowed(before, MatchAt("catch", before, i))

\* C9: the number a rule function returns is the number of sites whose text
\* it changed.
C9_CountIsSites == applied >= 1 => returns = sites

(***************************************************************************)
(* Properties of main() (Spec, SpecRank).                                  *)
(***************************************************************************)
Ended == pc \in {"done", "crashed"}

\* C4: after read_text or write_text has failed for a file, the run still
\* takes every ranked file and ends with the second checker run and the
\* report.
C4_BatchIsolation ==
    failed # "" =>
        \/ pc = "patch"
        \/ /\ pc = "done"
           /\ Len(visited) = Len(sorted_files)
           /\ report = "results"

\* C5: when subprocess.run raised, the run does not end as a successful run
\* does (not with the "no errors" report, not with exit status 0); when it
\* raised in the first run, no file is read or written.
C5_CheckerFailureFatal ==
    /\ (Ended /\ tsc_raised # {}) => (exit_status # 0 /\ report # "no_errors")
    /\ 1 \in tsc_raised => \A f \in Paths : reads[f] = 0 /\ writes[f] = 0

\* C6: a run that parsed a diagnostic calls the checker exactly twice, the
\* second time after the last ranked file; a run that parsed none ends with
\* the "no errors" report and has touched no file.
C6_SingleRecheck ==
    /\ tsc_calls <= 2
    /\ tsc_calls = 2 => Len(visited) = Len(sorted_files)
    /\ (Ended /\ total_errors > 0) => tsc_calls = 2
    /\ (Ended /\ total_errors = 0) =>
          /\ tsc_calls = 1 /\ report = "no_errors" /\ visited = << >>
          /\ \A f \in Paths : reads[f] = 0 /\ writes[f] = 0

\* the lines of the first checker run, each with its match of the
\* diagnostic pattern
FirstMatches ==
    [k \in 1..Len(run_tsc(tsc_before)) |-> diagnostic_match(run_tsc(tsc_before)[k])]

Diagnostics(matches) == {k \in DOMAIN matches : matches[k].ok}

DiagnosticsOf(matches, path) ==
    {k \in DOMAIN matches : matches[k].ok /\ matches[k].file_path = path}

\* path -> the number of its diagnostic lines and the first of them
Tally(matches) ==
    [path \in {matches[k].file_path : k \in Diagnostics(matches)} |->
        [errors |-> Cardinality(DiagnosticsOf(matches, path)),
         first |-> Min(DiagnosticsOf(matches, path))]]

RankedBefore(tally, p, q) ==
    \/ tally[p].errors > tally[q].errors
    \/ tally[p].errors = tally[q].errors /\ tally[p].first < tally[q].first

Ranking(matches, tally) ==
    /\ total_errors = Cardinality(Diagnostics(matches))
    /\ {sorted_files[k].file_path : k \in 1..Len(sorted_files)} = DOMAIN tally
    /\ \A k \in 1..Len(sorted_files) :
          sorted_files[k].errors = tally[sorted_files[k].file_path].errors
    /\ \A i, j \in 1..Len(sorted_files) :
          i < j => RankedBefore(tally, sorted_files[i].file_path, sorted_files[j].file_path)
    /\ Len(visited) <= Len(sorted_files)
    /\ \A k \in 1..Len(visited) : visited[k] = sorted_files[k].file_path

\* C7: the ranked files are the paths with a diagnostic, each with the
\* number of its diagnostic lines, by descending number and, for equal
\* numbers, in the order of their first diagnostic lines; the loop takes the
\* files in that order; total_errors is the number of diagnostic lines.
C7_Ranking == pc # "start" => Ranking(FirstMatches, Tally(FirstMatches))

\* the run on a.ts: 3, b.ts: 1, c.tsx: 3 has taken a.ts, c.tsx, b.ts
C7_Witness ==
    /\ pc = "done"
    /\ tsc_before = ExampleOutcome
    /\ total_errors = 7
    /\ visited = <<"a.ts", "c.tsx", "b.ts">>

\* C10: a ranked file is read once and written at most once, and not
\* written while rule functions are still to be called on it.
C10_OneReadOneWrite ==
    \A f \in Paths :
        /\ reads[f] <= 1
        /\ writes[f] <= 1
        /\ (InLoop /\ Current = f /\ step > 1) => writes[f] = 0

====
